---- MODULE Spec2Model ----
(***************************************************************************)
(* Step-scan engine of plugins/epics/stepscan.py (class LarchStepScan):    *)
(* verify_scan, look_for_interrupts, clear_interrupts, clear_data,         *)
(* at_break and the run() method, together with the devices and the scan   *)
(* database it talks to, and the ScanMessenger thread run() starts.        *)
(*                                                                         *)
(* Time is counted in ticks.  elapsed stands for time.time() - t0 of the   *)
(* wait loop in progress; it saturates one tick above det_maxcount_time,   *)
(* beyond which no comparison of the code changes its outcome.             *)
(* now stands for time.time() as run() reads it for its phase timings; it  *)
(* advances in the timing specification only, the other specifications     *)
(* leave the phase timings aside.                                          *)
(* Asynchronous signals (KeyboardInterrupt) are not delivered.             *)
(***************************************************************************)
EXTENDS Integers, Sequences, FiniteSets, TLC

\* ---------------------------------------------------------------- bounds
MaxPos   == 2    \* at most this many positioners
MaxPts   == 2    \* position arrays have at most this many points
MaxTrig  == 2    \* at most this many detectors (one trigger, one counter each)
MaxShort == 2    \* triggers complete too early in at most this many attempts
MaxMoveTime  == 1   \* largest pos_maxmove_time, in ticks
MaxCountTime == 4   \* largest det_maxcount_time, in ticks
Dwell    == 4    \* the scalar dwell time, in ticks
ScenarioPts == 5    \* the number of points of the scenario scan
MsgTimeout  == 1    \* ScanMessenger.timeout, in ticks of the messenger's clock
MaxRuns  == 2    \* run() is called at most this many times on one engine
MaxCalls == 3    \* verify_scan is called at most this many times
MaxClock == 3    \* the wall clock is followed up to this reading
MaxActors == 2   \* the handles of each kind of actor a client registers
MaxSize == 3     \* add_ methods are called while the engine holds at most this
                 \* many hooks, triggers and counters

\* the shortest poll, one tick
MIN_POLL_TIME == 1

\* ---------------------------------------------------------------- helpers
Min(a, b) == IF a < b THEN a ELSE b

RECURSIVE SeqMin(_)
SeqMin(s) == IF Len(s) = 1 THEN s[1] ELSE Min(s[1], SeqMin(Tail(s)))

\* position arrays: the ramp 1..n, or the ramp with its last value past the
\* soft limit
HighLimit == ScenarioPts
Ramp(n) == [k \in 1..n |-> k]
OverRamp(n) == [k \in 1..n |-> IF k = n THEN HighLimit + 1 ELSE k]
Arrays == {Ramp(n) : n \in 0..MaxPts} \cup {OverRamp(n) : n \in 1..MaxPts}

VARIABLES
    \* the scan definition
    positioners,        \* sequence of position arrays, one per positioner
    triggers,           \* sequence of BOOLEAN: the trigger has a stop method
    pos_ids,            \* the handle of each entry of positioners
    trig_ids,           \* the handle of each entry of triggers
    counters,           \* sequence of counter handles
    detectors,          \* sequence of detector handles
    at_break_methods,   \* the owners of the registered hooks, in order;
                        \* pre_scan_methods and post_scan_methods get the
                        \* same appends
    breakpoints,        \* set of 0-based point indices
    dwelltime,          \* [kind: "none" | "scalar" | "array", val: sequence]
    scandb,             \* TRUE when a scan database is attached
    pos_maxmove_time,
    det_maxcount_time,
    \* the scan database / _scan group
    request_abort, request_pause, request_resume,
    error_message,      \* "" or the message of set_error
    scan_message,
    \* the engine
    pc, i, cpt, npts, abort, pause, resume, complete, point_ok,
    pos_actual, orig_positions, trigger_has_stop, dwelltime_varys,
    min_dwelltime, elapsed,
    \* devices
    pos_done, pos_cur, pos_target,
    trig_done, trig_runtime,
    shorts,             \* the attempts found not ok so far
    buff,               \* buff[c]: the samples counter c has read
    det_dwell,          \* the dwell time last set on the detectors (0: never)
    \* the messenger thread
    msg_cpt,            \* msg_thread.cpt, the cell the engine writes (None: -1)
    msg_pc,             \* where the thread is in ScanMessenger.run
    last_point,         \* its local last_point
    msg_idle,           \* its time.time() - t0, in ticks
    calls,              \* the cpt arguments its calls of func were given
    \* every command issued and every write to the output file, in order
    log,
    \* the calls made on the engine
    runs,               \* the calls of run() so far
    verify_results,     \* what each call of verify_scan returned
    \* the wall clock and the phase timings of run()
    now,                \* time.time()
    ts_start, ts_init, ts_loop,
    inittime, looptime, exittime, runtime,
    scan_time_estimate  \* the estimate last written to the scan database

listVars  == <<positioners, pos_ids, triggers, trig_ids, counters, detectors>>
cfgVars   == <<listVars, at_break_methods, breakpoints, dwelltime, scandb,
               pos_maxmove_time, det_maxcount_time>>
reqVars   == <<request_abort, request_pause, request_resume>>
msgVars   == <<error_message, scan_message>>
flagVars  == <<abort, pause, resume>>
loopVars  == <<i, cpt, npts, point_ok, trigger_has_stop, dwelltime_varys,
               min_dwelltime>>
dataVars  == <<pos_actual, buff>>
posVars   == <<pos_done, pos_cur, pos_target>>
trigVars  == <<trig_done, trig_runtime, shorts>>
threadVars == <<msg_cpt, msg_pc, last_point, msg_idle, calls>>
histVars  == <<runs, verify_results>>
clockVars == <<now, ts_start, ts_init, ts_loop>>
timeVars  == <<inittime, looptime, exittime, runtime>>
auxVars   == <<histVars, clockVars, timeVars, scan_time_estimate>>
vars == <<auxVars, threadVars, cfgVars, reqVars, msgVars, flagVars, loopVars, dataVars, posVars,
          trigVars, pc, complete, orig_positions, elapsed, det_dwell, log>>

Pos  == 1..Len(positioners)
Trig == 1..Len(triggers)

Range(s) == {s[k] : k \in 1..Len(s)}

Ev(op, who, arg) == [op |-> op, who |-> who, arg |-> arg]

\* the events of one list comprehension over the positioners
RECURSIVE PosEvents(_, _, _)
PosEvents(op, n, arg) ==
    IF n = 0 THEN <<>> ELSE Append(PosEvents(op, n - 1, arg), Ev(op, n, arg[n]))

Const(n, v) == [k \in 1..n |-> v]

\* the value None of the messenger's cell
None == -1

\* ---------------------------------------------------------------- verification
\* Positioner.verify_array: the array is non-empty and within the soft limit
verify_array(arr) ==
    /\ Len(arr) > 0
    /\ \A k \in 1..Len(arr) : arr[k] <= HighLimit

\* the loop of verify_scan from positioner k on; n is the local npts
\* (-1 for None).  The value is "" for True and the error message for False.
RECURSIVE VerifyLoop(_, _, _)
VerifyLoop(ps, k, n) ==
    IF k > Len(ps) THEN ""
    ELSE IF ~verify_array(ps[k]) THEN "array out of bounds"
    ELSE LET n1 == IF n = -1 THEN Len(ps[k]) ELSE n
         IN  IF Len(ps[k]) # n1 THEN "inconsistent array length"
             ELSE VerifyLoop(ps, k + 1, n1)

\* verify_scan without the comparison of the array lengths
RECURSIVE VerifyNoLength(_, _)
VerifyNoLength(ps, k) ==
    IF k > Len(ps) THEN ""
    ELSE IF ~verify_array(ps[k]) THEN "array out of bounds"
    ELSE VerifyNoLength(ps, k + 1)

verify_scan_nolength(ps) == VerifyNoLength(ps, 1)

\* verify_scan passing once an error has been reported
verify_scan_once(ps) == IF error_message # "" THEN "" ELSE VerifyLoop(ps, 1, -1)

verify_scan(ps) == VerifyLoop(ps, 1, -1)

\* ---------------------------------------------------------------- interrupts
\* look_for_interrupts with a scan database: mirror the three requests
look_for_interrupts ==
    /\ abort'  = request_abort
    /\ pause'  = request_pause
    /\ resume' = request_resume

\* clear_interrupts without the writes to the scan database
clear_interrupts_flags_only ==
    /\ abort' = FALSE /\ pause' = FALSE /\ resume' = FALSE
    /\ UNCHANGED reqVars

\* clear_interrupts with a scan database
clear_interrupts ==
    /\ abort' = FALSE /\ pause' = FALSE /\ resume' = FALSE
    /\ request_abort' = FALSE
    /\ request_pause' = FALSE
    /\ request_resume' = FALSE

\* ---------------------------------------------------------------- initial state
DwellArray(n) == [k \in 1..n |-> Dwell + k - 1]

SeqsUpTo(S, n) == UNION {[1..m -> S] : m \in 1..n}

\* the scan every modelled scan departs from in at most one respect: one
\* positioner over the full ramp, one trigger with a stop method, no
\* breakpoints, a scalar dwell time with a scan database, and a move
\* time-out longer than any modelled wait.  The scans that depart in their
\* triggers have a single point.
ScalarDwell == [kind |-> "scalar", val |-> <<Dwell>>]
BasePositioners == positioners = <<Ramp(MaxPts)>>
OnePoint == positioners = <<Ramp(1)>>
BaseTriggers == triggers = <<TRUE>>
BaseBreakpoints == breakpoints = {}
BaseDwell == dwelltime = ScalarDwell /\ scandb
BaseMoveTime == pos_maxmove_time = MaxCountTime + 2

ScanDefinitions ==
    /\ positioners \in SeqsUpTo(Arrays, MaxPos)
    /\ triggers \in SeqsUpTo(BOOLEAN, MaxTrig)
    /\ breakpoints \in SUBSET (0..MaxPts - 1)
    /\ dwelltime \in {[kind |-> "none", val |-> <<>>],
                      ScalarDwell,
                      [kind |-> "array", val |-> DwellArray(Len(positioners[1]))]}
    /\ scandb \in BOOLEAN
    /\ pos_maxmove_time \in {MaxMoveTime, MaxCountTime + 2}
    /\ det_maxcount_time = MaxCountTime
    /\ \/ BaseTriggers /\ BaseBreakpoints /\ BaseDwell /\ BaseMoveTime
       \/ OnePoint /\ BaseBreakpoints /\ BaseDwell /\ BaseMoveTime
       \/ BasePositioners /\ BaseTriggers /\ BaseDwell /\ BaseMoveTime
       \/ BasePositioners /\ BaseTriggers /\ BaseBreakpoints /\ BaseMoveTime
       \/ BasePositioners /\ BaseTriggers /\ BaseBreakpoints /\ BaseDwell

\* the engine, the devices and the scan database before the first run
\* the engine after construction and the add_positioner and add_detector
\* calls of the scan definition: every detector has one trigger and one
\* counter
Constructed ==
    /\ pos_ids = [k \in 1..Len(positioners) |-> k]
    /\ trig_ids = [k \in 1..Len(triggers) |-> k]
    /\ counters = [k \in 1..Len(triggers) |-> k]
    /\ detectors = [k \in 1..Len(triggers) |-> k]
    /\ at_break_methods = [k \in 1..Len(positioners) |-> <<"positioner", k>>]
                          \o [k \in 1..Len(triggers) |-> <<"detector", k>>]
    /\ request_abort = FALSE /\ request_pause = FALSE /\ request_resume = FALSE
    /\ error_message = "" /\ scan_message = ""
    /\ pc = "idle"
    /\ i = -1 /\ cpt = 0 /\ npts = 0
    /\ abort = FALSE /\ pause = FALSE /\ resume = FALSE
    /\ complete = FALSE /\ point_ok = TRUE
    /\ pos_actual = <<>>
    /\ orig_positions = <<>>
    /\ trigger_has_stop = FALSE /\ dwelltime_varys = FALSE
    /\ min_dwelltime = 0 /\ elapsed = 0
    /\ pos_done = Const(Len(positioners), TRUE)
    /\ pos_cur = Const(Len(positioners), 0)
    /\ pos_target = Const(Len(positioners), 0)
    /\ trig_done = Const(Len(triggers), TRUE)
    /\ trig_runtime = Const(Len(triggers), 0)
    /\ shorts = 0
    /\ buff = Const(Len(counters), <<>>)
    /\ det_dwell = 0
    /\ msg_cpt = 0 /\ msg_pc = "unstarted" /\ last_point = 0
    /\ msg_idle = 0 /\ calls = <<>>
    /\ log = <<>>
    /\ runs = 0 /\ verify_results = <<>>
    /\ now = 0 /\ ts_start = 0 /\ ts_init = 0 /\ ts_loop = 0
    /\ inittime = 0 /\ looptime = 0 /\ exittime = 0 /\ runtime = 0
    /\ scan_time_estimate = 0

Init == ScanDefinitions /\ Constructed

\* set_error without the write
set_error_dropped(msg) == UNCHANGED error_message

\* set_error, lines 385-389: the message goes to the _scan group and, as
\* last_error, to the scan database
set_error(msg) == error_message' = msg

\* ---------------------------------------------------------------- run(): set-up
\* run() without the return of line 490
RunVerify_NoReturn ==
    /\ pc = "idle"
    /\ complete' = FALSE
    /\ IF verify_scan(positioners) # ""
       THEN /\ set_error(verify_scan(positioners))
            /\ scan_message' = "cannot execute scan"
       ELSE UNCHANGED msgVars
    /\ pc' = "clear"
    /\ runs' = runs + 1
    /\ verify_results' = Append(verify_results, verify_scan(positioners))
    /\ ts_start' = now
    /\ UNCHANGED <<now, ts_init, ts_loop, timeVars, scan_time_estimate>>
    /\ UNCHANGED <<threadVars, cfgVars, reqVars, flagVars, loopVars, dataVars, posVars,
                   trigVars, orig_positions, elapsed, det_dwell, log>>

\* run(), lines 476-490: read the clock, verify, and return at once when
\* verification fails
RunVerify ==
    /\ pc = "idle"
    /\ complete' = FALSE
    /\ IF verify_scan(positioners) # ""
       THEN /\ set_error(verify_scan(positioners))
            /\ scan_message' = "cannot execute scan"
            /\ pc' = "returned"
       ELSE /\ pc' = "clear"
            /\ UNCHANGED msgVars
    /\ runs' = runs + 1
    /\ verify_results' = Append(verify_results, verify_scan(positioners))
    /\ ts_start' = now
    /\ UNCHANGED <<now, ts_init, ts_loop, timeVars, scan_time_estimate>>
    /\ UNCHANGED <<threadVars, cfgVars, reqVars, flagVars, loopVars, dataVars, posVars,
                   trigVars, orig_positions, elapsed, det_dwell, log>>

FirstPoints == [p \in Pos |-> positioners[p][1]]

\* the positions read where the restore goes wrong: after move_to_start
original_positions_late == FirstPoints

\* line 493: the positions read before any move is issued
original_positions == pos_cur

\* run(), lines 491-497.  Without a scan database clear_interrupts reads
\* self._scan, which the object does not have, and raises.
RunClear ==
    /\ pc = "clear"
    /\ IF ~scandb
       THEN /\ abort' = FALSE /\ pause' = FALSE /\ resume' = FALSE
            /\ pc' = "raised"
            /\ UNCHANGED <<reqVars, orig_positions, posVars, log>>
       ELSE /\ clear_interrupts
            /\ orig_positions' = original_positions
            /\ log' = log \o <<Ev("clear_interrupts", 0, 0)>>
                          \o PosEvents("move_to_start", Len(positioners), FirstPoints)
            /\ pos_target' = FirstPoints
            /\ pos_done' = Const(Len(positioners), FALSE)
            /\ UNCHANGED pos_cur
            /\ \E failed \in BOOLEAN : pc' = IF failed THEN "raised" ELSE "open"
    /\ UNCHANGED <<auxVars, threadVars, cfgVars, msgVars, loopVars, dataVars, trigVars, complete,
                   elapsed, det_dwell>>

\* clear_data
clear_data ==
    /\ buff' = Const(Len(counters), <<>>)
    /\ pos_actual' = <<>>

\* lines 499-509 without the call of clear_data
RunOpen_NoClear ==
    /\ pc = "open"
    /\ log' = log \o <<Ev("open_output_file", 0, 0), Ev("write_data", 0, 0)>>
    /\ UNCHANGED dataVars
    /\ request_abort' = FALSE
    /\ pc' = "dwell"
    /\ UNCHANGED <<auxVars, threadVars, cfgVars, request_pause, request_resume, msgVars, flagVars,
                   loopVars, posVars, trigVars, complete, orig_positions,
                   elapsed, det_dwell>>

\* run(), lines 499-509: open the file, first write, clear the data
RunOpen ==
    /\ pc = "open"
    /\ log' = log \o <<Ev("open_output_file", 0, 0), Ev("write_data", 0, 0)>>
    /\ clear_data
    /\ request_abort' = FALSE
    /\ pc' = "dwell"
    /\ UNCHANGED <<auxVars, threadVars, cfgVars, request_pause, request_resume, msgVars, flagVars,
                   loopVars, posVars, trigVars, complete, orig_positions,
                   elapsed, det_dwell>>

pos_settle_time == MIN_POLL_TIME
det_settle_time == MIN_POLL_TIME

RECURSIVE SeqSum(_)
SeqSum(s) == IF s = <<>> THEN 0 ELSE s[1] + SeqSum(Tail(s))

\* lines 526-531: the estimate for the whole scan
time_est ==
    Len(positioners[1]) * (pos_settle_time + det_settle_time)
    + (IF dwelltime.kind = "array" THEN SeqSum(dwelltime.val)
       ELSE Len(positioners[1]) * dwelltime.val[1])

\* run(), lines 511-543: dwell time set-up, time estimate, pre_scan hooks.
\* With dwelltime None the estimate npts*self.dwelltime raises.
RunDwell ==
    /\ pc = "dwell"
    /\ IF dwelltime.kind = "none"
       THEN /\ dwelltime_varys' = FALSE
            /\ pc' = "raised"
            /\ UNCHANGED <<min_dwelltime, det_dwell, log, scan_message,
                           scan_time_estimate>>
       ELSE /\ dwelltime_varys' = (dwelltime.kind = "array")
            /\ min_dwelltime' = SeqMin(dwelltime.val)
            /\ det_dwell' = IF dwelltime.kind = "scalar" THEN dwelltime.val[1]
                            ELSE det_dwell
            /\ log' = log \o (IF dwelltime.kind = "scalar"
                              THEN <<Ev("set_dwelltime", 0, dwelltime.val[1])>>
                              ELSE <<>>)
                          \o <<Ev("pre_scan", 0, 0)>>
            /\ scan_message' = "preparing scan"
            /\ \E failed \in BOOLEAN :
                  IF failed THEN pc' = "raised" /\ UNCHANGED scan_time_estimate
                  ELSE pc' = "start" /\ scan_time_estimate' = time_est
    /\ UNCHANGED <<histVars, clockVars, timeVars, threadVars, cfgVars, reqVars, error_message, flagVars, i, cpt, npts,
                   point_ok, trigger_has_stop, dataVars, posVars, trigVars,
                   complete, orig_positions, elapsed>>

\* run(), lines 545-561: start the messenger, blocking move to start
RunStart ==
    /\ pc = "start"
    /\ msg_cpt' = 0
    /\ msg_pc' = "begin"
    /\ UNCHANGED <<last_point, msg_idle, calls>>
    /\ scan_message' = "starting scan"
    /\ cpt' = 0
    /\ npts' = Len(positioners[1])
    /\ trigger_has_stop' = (\E t \in Trig : triggers[t])
    /\ log' = log \o PosEvents("move_to_start_wait", Len(positioners), FirstPoints)
    /\ pos_target' = FirstPoints
    /\ pos_cur' = FirstPoints
    /\ pos_done' = Const(Len(positioners), TRUE)
    /\ i' = -1
    /\ \E failed \in BOOLEAN :
          IF failed THEN pc' = "raised" /\ UNCHANGED <<ts_init, inittime>>
          ELSE pc' = "loop" /\ ts_init' = now /\ inittime' = now - ts_start
    /\ UNCHANGED <<histVars, now, ts_start, ts_loop, looptime, exittime, runtime,
                   scan_time_estimate>>
    /\ UNCHANGED <<cfgVars, reqVars, error_message, flagVars, point_ok,
                   dwelltime_varys, min_dwelltime, dataVars, trigVars,
                   complete, orig_positions, elapsed, det_dwell>>

\* ---------------------------------------------------------------- run(): point loop
\* time passes while the engine polls or sleeps
MaxElapsed == det_maxcount_time + 1
Later(e) == {e, Min(e + 1, MaxElapsed)}

\* the events of one pass over the detectors selected by sel
RECURSIVE TrigEvents(_, _, _, _)
TrigEvents(op, n, sel, arg) ==
    IF n = 0 THEN <<>>
    ELSE TrigEvents(op, n - 1, sel, arg)
         \o (IF sel[n] THEN <<Ev(op, n, arg)>> ELSE <<>>)

AllTrig == Const(Len(triggers), TRUE)
AllCounters == Const(Len(counters), TRUE)

\* line 563-566: the loop test, the increment and the end of the range
LoopTop ==
    /\ pc = "loop"
    /\ IF abort
       THEN pc' = "exit" /\ UNCHANGED i
       ELSE /\ i' = i + 1
            /\ pc' = IF i + 1 >= npts THEN "exit" ELSE "point"
    /\ UNCHANGED <<auxVars, threadVars, cfgVars, reqVars, msgVars, flagVars, cpt, npts, point_ok,
                   trigger_has_stop, dwelltime_varys, min_dwelltime, dataVars,
                   posVars, trigVars, complete, orig_positions, elapsed,
                   det_dwell, log>>

\* lines 568-570 with cpt counted from zero
PointBegin_ZeroBased ==
    /\ pc = "point"
    /\ point_ok' = TRUE
    /\ cpt' = i
    /\ look_for_interrupts
    /\ pc' = "pause"
    /\ UNCHANGED <<auxVars, threadVars, cfgVars, reqVars, msgVars, i, npts, trigger_has_stop,
                   dwelltime_varys, min_dwelltime, dataVars, posVars, trigVars,
                   complete, orig_positions, elapsed, det_dwell, log>>

\* lines 568-570
PointBegin ==
    /\ pc = "point"
    /\ point_ok' = TRUE
    /\ cpt' = i + 1
    /\ look_for_interrupts
    /\ pc' = "pause"
    /\ UNCHANGED <<auxVars, threadVars, cfgVars, reqVars, msgVars, i, npts, trigger_has_stop,
                   dwelltime_varys, min_dwelltime, dataVars, posVars, trigVars,
                   complete, orig_positions, elapsed, det_dwell, log>>

\* lines 571-574: one test of "while self.pause", with the body when it is true
PauseLoop ==
    /\ pc = "pause"
    /\ IF pause
       THEN /\ look_for_interrupts
            /\ pc' = IF abort' THEN "move" ELSE "pause"
       ELSE /\ pc' = "move"
            /\ UNCHANGED flagVars
    /\ UNCHANGED <<auxVars, threadVars, cfgVars, reqVars, msgVars, loopVars, dataVars, posVars,
                   trigVars, complete, orig_positions, elapsed, det_dwell, log>>

ArrayPoints(k) == [p \in Pos |-> positioners[p][k + 1]]

\* lines 576-581 without the dwell time of the point
MoveToPos_NoDwell ==
    /\ pc = "move"
    /\ log' = log \o PosEvents("move_to_pos", Len(positioners), Const(Len(positioners), i))
    /\ pos_target' = ArrayPoints(i)
    /\ pos_done' = Const(Len(positioners), FALSE)
    /\ det_dwell' = det_dwell
    /\ elapsed' = 0
    /\ pc' = "pos_wait"
    /\ UNCHANGED <<auxVars, threadVars, cfgVars, reqVars, msgVars, flagVars, loopVars, dataVars,
                   pos_cur, trigVars, complete, orig_positions>>

\* lines 576-581
MoveToPos ==
    /\ pc = "move"
    /\ log' = log \o PosEvents("move_to_pos", Len(positioners), Const(Len(positioners), i))
                  \o (IF dwelltime_varys
                      THEN TrigEvents("set_dwelltime", Len(triggers), AllTrig,
                                      dwelltime.val[i + 1])
                      ELSE <<>>)
    /\ pos_target' = ArrayPoints(i)
    /\ pos_done' = Const(Len(positioners), FALSE)
    /\ det_dwell' = IF dwelltime_varys THEN dwelltime.val[i + 1] ELSE det_dwell
    /\ elapsed' = 0
    /\ pc' = "pos_wait"
    /\ UNCHANGED <<auxVars, threadVars, cfgVars, reqVars, msgVars, flagVars, loopVars, dataVars,
                   pos_cur, trigVars, complete, orig_positions>>

\* lines 582-587 without the time-out
PosWait_NoTimeout ==
    /\ pc = "pos_wait"
    /\ IF \E p \in Pos : ~pos_done[p]
       THEN /\ look_for_interrupts
            /\ IF abort'
               THEN pc' = "pos_after" /\ UNCHANGED elapsed
               ELSE pc' = "pos_wait" /\ elapsed' \in Later(elapsed)
       ELSE /\ pc' = "pos_after"
            /\ UNCHANGED <<flagVars, elapsed>>
    /\ UNCHANGED <<auxVars, threadVars, cfgVars, reqVars, msgVars, loopVars, dataVars, posVars,
                   trigVars, complete, orig_positions, det_dwell, log>>

\* lines 582-587: one test of the positioner wait, with the body when it is true
PosWait ==
    /\ pc = "pos_wait"
    /\ IF (\E p \in Pos : ~pos_done[p]) /\ elapsed < pos_maxmove_time
       THEN /\ look_for_interrupts
            /\ IF abort'
               THEN pc' = "pos_after" /\ UNCHANGED elapsed
               ELSE pc' = "pos_wait" /\ elapsed' \in Later(elapsed)
       ELSE /\ pc' = "pos_after"
            /\ UNCHANGED <<flagVars, elapsed>>
    /\ UNCHANGED <<auxVars, threadVars, cfgVars, reqVars, msgVars, loopVars, dataVars, posVars,
                   trigVars, complete, orig_positions, det_dwell, log>>

\* a poll whose result is not acted on
PollOrBreak_NoBreak(here, next) ==
    /\ pc = here
    /\ look_for_interrupts
    /\ pc' = next
    /\ UNCHANGED <<auxVars, threadVars, cfgVars, reqVars, msgVars, loopVars, dataVars, posVars,
                   trigVars, complete, orig_positions, elapsed, det_dwell, log>>

\* a poll followed by "break" out of the point loop
PollOrBreak(here, next) ==
    /\ pc = here
    /\ look_for_interrupts
    /\ pc' = IF abort' THEN "exit" ELSE next
    /\ UNCHANGED <<auxVars, threadVars, cfgVars, reqVars, msgVars, loopVars, dataVars, posVars,
                   trigVars, complete, orig_positions, elapsed, det_dwell, log>>

\* lines 588-589
PosAfter == PollOrBreak("pos_after", "pos_settle")

\* lines 593-596
PosSettle == PollOrBreak("pos_settle", "trig_start")

\* lines 600-603: start the triggers, then sleep a quarter of the dwell time
TrigStart ==
    /\ pc = "trig_start"
    /\ log' = log \o TrigEvents("start", Len(triggers), AllTrig, i)
    /\ trig_done' = Const(Len(triggers), FALSE)
    /\ trig_runtime' = Const(Len(triggers), -1)
    /\ elapsed' = (min_dwelltime + 3) \div 4
    /\ pc' = "trig_wait"
    /\ UNCHANGED <<auxVars, threadVars, cfgVars, reqVars, msgVars, flagVars, loopVars, dataVars,
                   posVars, shorts, complete, orig_positions, det_dwell>>

\* the condition of the trigger wait without the least time
TriggersFinished_NoDwell ==
    /\ \A t \in Trig : trig_done[t]
    /\ elapsed < det_maxcount_time

\* the condition of the trigger wait, lines 604-606
TriggersFinished ==
    /\ \A t \in Trig : trig_done[t]
    /\ elapsed < det_maxcount_time
    /\ 2 * elapsed > min_dwelltime

\* lines 604-609: one test of the trigger wait, with the body when it is true
TrigWait ==
    /\ pc = "trig_wait"
    /\ IF ~TriggersFinished
       THEN /\ look_for_interrupts
            /\ IF abort'
               THEN pc' = "trig_after" /\ UNCHANGED elapsed
               ELSE pc' = "trig_wait" /\ elapsed' \in Later(elapsed)
       ELSE /\ pc' = "trig_after"
            /\ UNCHANGED <<flagVars, elapsed>>
    /\ UNCHANGED <<auxVars, threadVars, cfgVars, reqVars, msgVars, loopVars, dataVars, posVars,
                   trigVars, complete, orig_positions, det_dwell, log>>

\* lines 611-612
TrigAfter == PollOrBreak("trig_after", "trig_check")

TooShort(t) == 2 * trig_runtime[t] < min_dwelltime

\* lines 615-627: the value of point_ok after the two runtime checks.  The
\* first check is outside the for loop and reads the last trigger only.
PointOk ==
    LET first == ~(trigger_has_stop /\ TooShort(Len(triggers)))
    IN  IF first THEN TRUE ELSE ~(\E t \in Trig : TooShort(t))

\* lines 615-629
TrigCheck ==
    /\ pc = "trig_check"
    /\ log' = log \o (IF trigger_has_stop
                      THEN TrigEvents("stop", Len(triggers), triggers, i)
                      ELSE <<>>)
    /\ point_ok' = PointOk
    /\ shorts' = IF PointOk THEN shorts ELSE shorts + 1
    /\ pc' = "det_settle"
    /\ UNCHANGED <<auxVars, threadVars, cfgVars, reqVars, msgVars, flagVars, i, cpt, npts,
                   trigger_has_stop, dwelltime_varys, min_dwelltime, dataVars,
                   posVars, trig_done, trig_runtime, complete, orig_positions,
                   elapsed, det_dwell>>

\* lines 632-635 without the break
DetSettle_NoBreak ==
    /\ pc = "det_settle"
    /\ look_for_interrupts
    /\ pc' = "read"
    /\ UNCHANGED <<auxVars, threadVars, cfgVars, reqVars, msgVars, loopVars, dataVars, posVars,
                   trigVars, complete, orig_positions, elapsed, det_dwell, log>>

\* lines 632-635
DetSettle == PollOrBreak("det_settle", "read")

\* lines 637-650 without the record of the positions
ReadCounters_NoPosition ==
    /\ pc = "read"
    /\ log' = log \o (IF trigger_has_stop
                      THEN TrigEvents("stop_wait", Len(triggers), triggers, i)
                      ELSE <<>>)
                  \o TrigEvents("read", Len(counters), AllCounters, i)
    /\ buff' = [c \in DOMAIN buff |-> Append(buff[c], cpt)]
    /\ pos_actual' = pos_actual
    /\ msg_cpt' = cpt
    /\ pc' = "break"
    /\ UNCHANGED <<auxVars, msg_pc, last_point, msg_idle, calls, cfgVars,
                   reqVars, msgVars, flagVars, loopVars, posVars,
                   trigVars, complete, orig_positions, elapsed, det_dwell>>

\* lines 637-650: read the counters, record the positions, tell the messenger
ReadCounters ==
    /\ pc = "read"
    /\ log' = log \o (IF trigger_has_stop
                      THEN TrigEvents("stop_wait", Len(triggers), triggers, i)
                      ELSE <<>>)
                  \o TrigEvents("read", Len(counters), AllCounters, i)
    /\ buff' = [c \in DOMAIN buff |-> Append(buff[c], cpt)]
    /\ pos_actual' = Append(pos_actual, pos_cur)
    /\ msg_cpt' = cpt
    /\ pc' = "break"
    /\ UNCHANGED <<auxVars, msg_pc, last_point, msg_idle, calls, cfgVars,
                   reqVars, msgVars, flagVars, loopVars, posVars,
                   trigVars, complete, orig_positions, elapsed, det_dwell>>

\* at_break, lines 307-311: the hooks first, then the write
at_break(b) == <<Ev("at_break", 0, b), Ev("write_data", 0, b)>>

\* lines 653-657 with the point number in place of the index
AtBreak_PointNumber ==
    /\ pc = "break"
    /\ IF cpt \in breakpoints
       THEN /\ log' = log \o at_break(i)
            /\ look_for_interrupts
            /\ pc' = IF abort' THEN "exit" ELSE "point_end"
       ELSE /\ pc' = "point_end"
            /\ UNCHANGED <<flagVars, log>>
    /\ UNCHANGED <<auxVars, threadVars, cfgVars, reqVars, msgVars, loopVars, dataVars, posVars,
                   trigVars, complete, orig_positions, elapsed, det_dwell>>

\* lines 653-657
AtBreak ==
    /\ pc = "break"
    /\ IF i \in breakpoints
       THEN /\ log' = log \o at_break(i)
            /\ look_for_interrupts
            /\ pc' = IF abort' THEN "exit" ELSE "point_end"
       ELSE /\ pc' = "point_end"
            /\ UNCHANGED <<flagVars, log>>
    /\ UNCHANGED <<auxVars, threadVars, cfgVars, reqVars, msgVars, loopVars, dataVars, posVars,
                   trigVars, complete, orig_positions, elapsed, det_dwell>>

\* lines 661-663 with the scan begun again after a point that was not ok
PointEnd_Restart ==
    /\ pc = "point_end"
    /\ i' = IF point_ok THEN i ELSE -1
    /\ pc' = "loop"
    /\ UNCHANGED <<auxVars, threadVars, cfgVars, reqVars, msgVars, flagVars, cpt, npts, point_ok,
                   trigger_has_stop, dwelltime_varys, min_dwelltime, dataVars,
                   posVars, trigVars, complete, orig_positions, elapsed,
                   det_dwell, log>>

\* lines 661-663 with the point number taken back with the index
PointEnd_CountBack ==
    /\ pc = "point_end"
    /\ i' = IF point_ok THEN i ELSE i - 1
    /\ pc' = "loop"
    /\ cpt' = IF point_ok THEN cpt ELSE cpt - 1
    /\ UNCHANGED <<auxVars, threadVars, cfgVars, reqVars, msgVars, flagVars, npts, point_ok,
                   trigger_has_stop, dwelltime_varys, min_dwelltime, dataVars,
                   posVars, trigVars, complete, orig_positions, elapsed,
                   det_dwell, log>>

\* lines 661-663: a point that was not ok is done again
PointEnd ==
    /\ pc = "point_end"
    /\ i' = IF point_ok THEN i ELSE i - 1
    /\ pc' = "loop"
    /\ UNCHANGED <<auxVars, threadVars, cfgVars, reqVars, msgVars, flagVars, cpt, npts, point_ok,
                   trigger_has_stop, dwelltime_varys, min_dwelltime, dataVars,
                   posVars, trigVars, complete, orig_positions, elapsed,
                   det_dwell, log>>

\* ---------------------------------------------------------------- run(): exit
\* lines 667-676 without the return moves
RunExit_NoRestore ==
    /\ pc = "exit"
    /\ look_for_interrupts
    /\ log' = log \o (IF abort' THEN <<Ev("scan_aborted", 0, cpt)>> ELSE <<>>)
                  \o <<Ev("write_data", 0, -1)>>
    /\ pc' = "post"
    /\ ts_loop' = now
    /\ looptime' = now - ts_init
    /\ UNCHANGED <<histVars, now, ts_start, ts_init, inittime, exittime, runtime,
                   scan_time_estimate>>
    /\ UNCHANGED <<threadVars, cfgVars, reqVars, msgVars, loopVars, dataVars, posVars,
                   trigVars, complete, orig_positions, elapsed, det_dwell>>

\* lines 667-676: report an abort, return the positioners, last write
RunExit ==
    /\ pc = "exit"
    /\ look_for_interrupts
    /\ log' = log \o (IF abort' THEN <<Ev("scan_aborted", 0, cpt)>> ELSE <<>>)
                  \o PosEvents("move_to", Len(positioners), orig_positions)
                  \o <<Ev("write_data", 0, -1)>>
    /\ pos_target' = orig_positions
    /\ pos_done' = Const(Len(positioners), FALSE)
    /\ pc' = "post"
    /\ ts_loop' = now
    /\ looptime' = now - ts_init
    /\ UNCHANGED <<histVars, now, ts_start, ts_init, inittime, exittime, runtime,
                   scan_time_estimate>>
    /\ UNCHANGED <<threadVars, cfgVars, reqVars, msgVars, loopVars, dataVars, pos_cur,
                   trigVars, complete, orig_positions, elapsed, det_dwell>>

\* lines 678-686 with complete set before the hooks are checked
RunPost_CompleteFirst ==
    /\ pc = "post"
    /\ clear_interrupts
    /\ scan_message' = "finishing"
    /\ log' = log \o <<Ev("clear_interrupts", 0, 0), Ev("post_scan", 0, 0)>>
    /\ complete' = TRUE
    /\ \E failed \in BOOLEAN : pc' = IF failed THEN "raised" ELSE "join"
    /\ UNCHANGED <<auxVars, threadVars, cfgVars, error_message, loopVars, dataVars, posVars,
                   trigVars, orig_positions, elapsed, det_dwell>>

\* lines 678-686: clear the interrupts, post_scan hooks
RunPost ==
    /\ pc = "post"
    /\ clear_interrupts
    /\ scan_message' = "finishing"
    /\ log' = log \o <<Ev("clear_interrupts", 0, 0), Ev("post_scan", 0, 0)>>
    /\ \E failed \in BOOLEAN :
          IF failed THEN pc' = "raised" /\ UNCHANGED complete
          ELSE pc' = "join" /\ complete' = TRUE
    /\ UNCHANGED <<auxVars, threadVars, cfgVars, error_message, loopVars, dataVars, posVars,
                   trigVars, orig_positions, elapsed, det_dwell>>

\* lines 688-699 with the run time counted from the start of the point loop
RunFinish_LoopOnly ==
    /\ pc = "join"
    /\ msg_cpt' = None
    /\ last_point' = None
    /\ msg_idle' = 0
    /\ msg_pc' = "ended"
    /\ scan_message' = "scan complete"
    /\ pc' = "done"
    /\ exittime' = now - ts_loop
    /\ runtime' = now - ts_init
    /\ UNCHANGED <<histVars, clockVars, inittime, looptime, scan_time_estimate>>
    /\ UNCHANGED <<calls, cfgVars, reqVars, error_message, flagVars, loopVars,
                   dataVars, posVars, trigVars, complete, orig_positions,
                   elapsed, det_dwell, log>>

\* lines 688-699: stop the messenger, final message, the timings, return
\* the file name.
\* The messenger is scheduled here only while run() waits in join(): it
\* starts, finds the sentinel in its cell and returns without a call.
RunFinish ==
    /\ pc = "join"
    /\ msg_cpt' = None
    /\ last_point' = None
    /\ msg_idle' = 0
    /\ msg_pc' = "ended"
    /\ scan_message' = "scan complete"
    /\ pc' = "done"
    /\ exittime' = now - ts_loop
    /\ runtime' = now - ts_start
    /\ UNCHANGED <<histVars, clockVars, inittime, looptime, scan_time_estimate>>
    /\ UNCHANGED <<calls, cfgVars, reqVars, error_message, flagVars, loopVars,
                   dataVars, posVars, trigVars, complete, orig_positions,
                   elapsed, det_dwell, log>>

\* lines 689-690: the sentinel is written to the messenger's cell
RunStop ==
    /\ pc = "join"
    /\ msg_cpt' = None
    /\ pc' = "joining"
    /\ UNCHANGED <<auxVars, msg_pc, last_point, msg_idle, calls, cfgVars, reqVars,
                   msgVars, flagVars, loopVars, dataVars, posVars, trigVars,
                   complete, orig_positions, elapsed, det_dwell, log>>

\* lines 691-699 without the wait for the thread
RunJoin_NoWait ==
    /\ pc = "joining"
    /\ scan_message' = "scan complete"
    /\ pc' = "done"
    /\ exittime' = now - ts_loop
    /\ runtime' = now - ts_start
    /\ UNCHANGED <<histVars, clockVars, inittime, looptime, scan_time_estimate>>
    /\ UNCHANGED <<threadVars, cfgVars, reqVars, error_message, flagVars,
                   loopVars, dataVars, posVars, trigVars, complete,
                   orig_positions, elapsed, det_dwell, log>>

\* lines 691-699: join() returns once the thread has ended; the timings
RunJoin ==
    /\ pc = "joining"
    /\ msg_pc = "ended"
    /\ scan_message' = "scan complete"
    /\ pc' = "done"
    /\ exittime' = now - ts_loop
    /\ runtime' = now - ts_start
    /\ UNCHANGED <<histVars, clockVars, inittime, looptime, scan_time_estimate>>
    /\ UNCHANGED <<threadVars, cfgVars, reqVars, error_message, flagVars,
                   loopVars, dataVars, posVars, trigVars, complete,
                   orig_positions, elapsed, det_dwell, log>>

\* ---------------------------------------------------------------- environment
Running == pc \notin {"returned", "raised", "done"}

\* a client of the scan database asks for an abort
RequestAbort ==
    /\ Running /\ scandb /\ ~request_abort
    /\ request_abort' = TRUE
    /\ UNCHANGED <<auxVars, threadVars, cfgVars, request_pause, request_resume, msgVars, flagVars,
                   loopVars, dataVars, posVars, trigVars, pc, complete,
                   orig_positions, elapsed, det_dwell, log>>

\* a client sets or withdraws the pause request.  The engine acts on the
\* request at the poll that begins a point and in the pause loop only, so
\* the requests are made before a run, between points and during a pause.
RequestPause ==
    /\ pc \in {"idle", "point", "pause"} /\ scandb
    /\ request_pause' = ~request_pause
    /\ UNCHANGED <<auxVars, threadVars, cfgVars, request_abort, request_resume, msgVars, flagVars,
                   loopVars, dataVars, posVars, trigVars, pc, complete,
                   orig_positions, elapsed, det_dwell, log>>

\* a client asks a paused scan to resume
RequestResume ==
    /\ pc \in {"idle", "point", "pause"} /\ scandb
    /\ request_pause /\ ~request_resume
    /\ request_resume' = TRUE
    /\ UNCHANGED <<auxVars, threadVars, cfgVars, request_abort, request_pause, msgVars, flagVars,
                   loopVars, dataVars, posVars, trigVars, pc, complete,
                   orig_positions, elapsed, det_dwell, log>>

\* positioner p reaches its target
PosDone(p) ==
    /\ Running /\ ~pos_done[p]
    /\ pos_done' = [pos_done EXCEPT ![p] = TRUE]
    /\ pos_cur' = [pos_cur EXCEPT ![p] = pos_target[p]]
    /\ UNCHANGED <<auxVars, threadVars, cfgVars, reqVars, msgVars, flagVars, loopVars, dataVars,
                   pos_target, trigVars, pc, complete, orig_positions, elapsed,
                   det_dwell, log>>

\* trigger t completes; its runtime is the time since it was started, kept
\* up to half the minimum dwell time (all the code compares it with)
TrigDone(t) ==
    /\ Running /\ ~trig_done[t]
    /\ 2 * elapsed < min_dwelltime => shorts < MaxShort
    /\ UNCHANGED shorts
    /\ trig_done' = [trig_done EXCEPT ![t] = TRUE]
    /\ trig_runtime' = [trig_runtime EXCEPT ![t] = Min(elapsed, (min_dwelltime + 1) \div 2)]
    /\ UNCHANGED <<auxVars, threadVars, cfgVars, reqVars, msgVars, flagVars, loopVars, dataVars,
                   posVars, pc, complete, orig_positions, elapsed, det_dwell,
                   log>>

\* the caller checks the scan definition before a run: verify_scan, lines
\* 323-342, which on a failure calls set_error and does nothing else
Verify ==
    /\ pc = "idle"
    /\ Len(verify_results) < MaxCalls
    /\ verify_results' = Append(verify_results, verify_scan(positioners))
    /\ IF verify_scan(positioners) # ""
       THEN set_error(verify_scan(positioners))
       ELSE UNCHANGED error_message
    /\ UNCHANGED <<runs, clockVars, timeVars, scan_time_estimate, threadVars,
                   cfgVars, reqVars, scan_message, flagVars, loopVars,
                   dataVars, posVars, trigVars, pc, complete, orig_positions,
                   elapsed, det_dwell, log>>

\* run() has returned or raised, and the caller is about to call it again
\* on the same engine
RunAgain ==
    /\ pc \in {"done", "returned", "raised"}
    /\ runs < MaxRuns
    /\ pc' = "idle"
    /\ UNCHANGED <<auxVars, threadVars, cfgVars, reqVars, msgVars, flagVars,
                   loopVars, dataVars, posVars, trigVars, complete,
                   orig_positions, elapsed, det_dwell, log>>

\* the wall clock advances
Tick ==
    /\ Running
    /\ now < MaxClock
    /\ now' = now + 1
    /\ UNCHANGED <<histVars, ts_start, ts_init, ts_loop, timeVars,
                   scan_time_estimate, threadVars, cfgVars, reqVars, msgVars,
                   flagVars, loopVars, dataVars, posVars, trigVars, pc,
                   complete, orig_positions, elapsed, det_dwell, log>>

\* ---------------------------------------------------------------- registration
\* the client registers actors before the first run()
Building ==
    /\ pc = "idle" /\ runs = 0
    /\ Len(at_break_methods) + Len(trig_ids) + Len(counters) <= MaxSize

Actors == 1..MaxActors

\* the array of every positioner a client registers
ActorArray == Ramp(1)

\* the detector of handle d: its trigger and its counters
det_trigger(d) == d
det_counters(d) == <<d, (d % MaxActors) + 1>>

\* 'if x not in list: list.append(x)'
Added(list, x) == IF x \in Range(list) THEN list ELSE Append(list, x)

RECURSIVE AddedAll(_, _)
AddedAll(list, xs) ==
    IF xs = <<>> THEN list ELSE AddedAll(Added(list, Head(xs)), Tail(xs))

\* a per-actor array that follows its list: the entries of the actors
\* already there are kept, a new actor starts with v
Grown(arr, n, v) == [k \in 1..n |-> IF k \in DOMAIN arr THEN arr[k] ELSE v]

\* the variables no add_ method touches
builtVars == <<auxVars, threadVars, breakpoints, dwelltime, scandb,
               pos_maxmove_time, det_maxcount_time, reqVars, msgVars,
               flagVars, loopVars, pos_actual, shorts, pc, complete,
               orig_positions, elapsed, det_dwell, log>>

\* the trigger list after add_trigger(t), with the state of its triggers
TriggerAdded(t) ==
    /\ trig_ids' = Added(trig_ids, t)
    /\ triggers' = Grown(triggers, Len(Added(trig_ids, t)), FALSE)
    /\ trig_done' = Grown(trig_done, Len(Added(trig_ids, t)), TRUE)
    /\ trig_runtime' = Grown(trig_runtime, Len(Added(trig_ids, t)), 0)

\* the counter list after add_counter of every counter of cs in turn
CountersAdded(cs) ==
    /\ counters' = AddedAll(counters, cs)
    /\ buff' = Grown(buff, Len(AddedAll(counters, cs)), <<>>)

\* add_counter, lines 242-249
add_counter(c) ==
    /\ Building
    /\ CountersAdded(<<c>>)
    /\ UNCHANGED <<builtVars, positioners, pos_ids, posVars, triggers,
                   trig_ids, trig_done, trig_runtime, detectors,
                   at_break_methods>>

\* add_trigger without the test of line 256
add_trigger_always(t) ==
    /\ Building
    /\ trig_ids' = Append(trig_ids, t)
    /\ triggers' = Append(triggers, FALSE)
    /\ trig_done' = Append(trig_done, TRUE)
    /\ trig_runtime' = Append(trig_runtime, 0)
    /\ UNCHANGED <<builtVars, positioners, pos_ids, posVars, counters, buff,
                   detectors, at_break_methods>>

\* add_trigger, lines 251-258
add_trigger(t) ==
    /\ Building
    /\ TriggerAdded(t)
    /\ UNCHANGED <<builtVars, positioners, pos_ids, posVars, counters, buff,
                   detectors, at_break_methods>>

\* add_positioner, lines 273-282: the hooks are appended at every call, the
\* positioner only when it is not in the list
add_positioner(p) ==
    /\ Building
    /\ at_break_methods' = Append(at_break_methods, <<"positioner", p>>)
    /\ pos_ids' = Added(pos_ids, p)
    /\ positioners' = Grown(positioners, Len(Added(pos_ids, p)), ActorArray)
    /\ pos_done' = Grown(pos_done, Len(Added(pos_ids, p)), TRUE)
    /\ pos_cur' = Grown(pos_cur, Len(Added(pos_ids, p)), 0)
    /\ pos_target' = Grown(pos_target, Len(Added(pos_ids, p)), 0)
    /\ UNCHANGED <<builtVars, triggers, trig_ids, trig_done, trig_runtime,
                   counters, buff, detectors>>

\* add_detector, lines 284-298: the hooks, add_trigger of the detector's
\* trigger, add_counter of each of its counters, and the detector itself
\* when it is not in the list
add_detector(d) ==
    /\ Building
    /\ at_break_methods' = Append(at_break_methods, <<"detector", d>>)
    /\ TriggerAdded(det_trigger(d))
    /\ CountersAdded(det_counters(d))
    /\ detectors' = Added(detectors, d)
    /\ UNCHANGED <<builtVars, positioners, pos_ids, posVars>>

\* ---------------------------------------------------------------- messenger
engineVars == <<histVars, clockVars, timeVars, cfgVars, reqVars, flagVars, loopVars, dataVars, posVars,
                trigVars, pc, complete, orig_positions, elapsed, det_dwell,
                log, error_message>>

\* ScanMessenger.run, lines 167-168
MsgBegin ==
    /\ msg_pc = "begin"
    /\ last_point' = msg_cpt
    /\ msg_idle' = 0
    /\ msg_pc' = "poll"
    /\ UNCHANGED <<msg_cpt, calls, scan_message, scan_time_estimate,
                   engineVars>>

\* lines 171-172: sleep in poll(), then compare the cell with last_point
MsgPoll ==
    /\ msg_pc = "poll"
    /\ msg_idle' \in {msg_idle, Min(msg_idle + 1, MsgTimeout + 1)}
    /\ msg_pc' = IF msg_cpt # last_point THEN "assign" ELSE "check"
    /\ UNCHANGED <<msg_cpt, last_point, calls, scan_message, scan_time_estimate,
                   engineVars>>

\* lines 173-174: the cell is read again for last_point
MsgAssign ==
    /\ msg_pc = "assign"
    /\ last_point' = msg_cpt
    /\ msg_idle' = 0
    /\ msg_pc' = "test"
    /\ UNCHANGED <<msg_cpt, calls, scan_message, scan_time_estimate,
                   engineVars>>

\* line 175: the cell is read again for the test against None
MsgTest ==
    /\ msg_pc = "test"
    /\ msg_pc' = IF msg_cpt # None THEN "call" ELSE "check"
    /\ UNCHANGED <<msg_cpt, last_point, msg_idle, calls, scan_message,
                   scan_time_estimate, engineVars>>

\* the time left with the dwell times taken from the point after cpt on
time_left_late(c) ==
    (npts - c) * (pos_settle_time + det_settle_time)
    + (IF dwelltime_varys
       THEN SeqSum(SubSeq(dwelltime.val, c + 2, Len(dwelltime.val)))
       ELSE (npts - c) * dwelltime.val[1])

\* _messenger, lines 369-373: dwelltime[cpt:] are the dwell times of the
\* points cpt + 1 and later
time_left(c) ==
    (npts - c) * (pos_settle_time + det_settle_time)
    + (IF dwelltime_varys
       THEN SeqSum(SubSeq(dwelltime.val, c + 1, Len(dwelltime.val)))
       ELSE (npts - c) * dwelltime.val[1])

\* _messenger, lines 368-383: the time left is computed from cpt (which
\* raises when cpt is None), then set_info writes the estimate and the
\* scan message
messenger(c) ==
    IF c = None
    THEN msg_pc' = "ended" /\ UNCHANGED <<scan_message, scan_time_estimate>>
    ELSE /\ msg_pc' = "check"
         /\ scan_message' = "point"
         /\ scan_time_estimate' = time_left(c)

\* lines 176-177: the cell is read again for the argument of func
MsgCall ==
    /\ msg_pc = "call"
    /\ calls' = Append(calls, msg_cpt)
    /\ messenger(msg_cpt)
    /\ UNCHANGED <<msg_cpt, last_point, msg_idle, engineVars>>

\* lines 178-179 with the time-out alone ending the thread
MsgCheck_TimeoutOnly ==
    /\ msg_pc = "check"
    /\ msg_pc' = IF msg_idle > MsgTimeout THEN "ended" ELSE "poll"
    /\ UNCHANGED <<msg_cpt, last_point, msg_idle, calls, scan_message,
                   scan_time_estimate, engineVars>>

\* lines 178-179: the cell is read again for the test that ends the thread
MsgCheck ==
    /\ msg_pc = "check"
    /\ msg_pc' = IF msg_cpt = None \/ msg_idle > MsgTimeout
                 THEN "ended" ELSE "poll"
    /\ UNCHANGED <<msg_cpt, last_point, msg_idle, calls, scan_message,
                   scan_time_estimate, engineVars>>

Next ==
    \/ RunVerify \/ RunClear \/ RunOpen \/ RunDwell \/ RunStart
    \/ LoopTop \/ PointBegin \/ PauseLoop \/ MoveToPos \/ PosWait
    \/ PosAfter \/ PosSettle \/ TrigStart \/ TrigWait \/ TrigAfter
    \/ TrigCheck \/ DetSettle \/ ReadCounters \/ AtBreak \/ PointEnd
    \/ RunExit \/ RunPost \/ RunFinish
    \/ RequestAbort \/ RequestPause \/ RequestResume
    \/ \E p \in Pos : PosDone(p)
    \/ \E t \in Trig : TrigDone(t)

Spec == Init /\ [][Next]_vars

\* the messenger thread scheduled at any time, in the scan of one positioner
\* and one trigger without a stop method (no point is found not ok)
MessengerInit ==
    /\ positioners = <<Ramp(MaxPts)>>
    /\ triggers = <<FALSE>>
    /\ breakpoints = {}
    /\ dwelltime = ScalarDwell
    /\ scandb = TRUE
    /\ pos_maxmove_time = MaxCountTime + 2
    /\ det_maxcount_time = MaxCountTime
    /\ Constructed

MessengerNext ==
    \/ RunVerify \/ RunClear \/ RunOpen \/ RunDwell \/ RunStart
    \/ LoopTop \/ PointBegin \/ PauseLoop \/ MoveToPos \/ PosWait
    \/ PosAfter \/ PosSettle \/ TrigStart \/ TrigWait \/ TrigAfter
    \/ TrigCheck \/ DetSettle \/ ReadCounters \/ AtBreak \/ PointEnd
    \/ RunExit \/ RunPost \/ RunStop \/ RunJoin
    \/ RequestAbort \/ RequestPause \/ RequestResume
    \/ \E p \in Pos : PosDone(p)
    \/ \E t \in Trig : TrigDone(t)
    \/ MsgBegin \/ MsgPoll \/ MsgAssign \/ MsgTest \/ MsgCall \/ MsgCheck

MessengerSpec == MessengerInit /\ [][MessengerNext]_vars

\* the thread is scheduled again and again, and so is run() in join()
MessengerStep ==
    MsgBegin \/ MsgPoll \/ MsgAssign \/ MsgTest \/ MsgCall \/ MsgCheck

MessengerFair ==
    MessengerSpec /\ WF_vars(MessengerStep) /\ WF_vars(RunJoin)

\* the scenario scan: ScenarioPts points, one positioner, one trigger (with
\* or without a stop method), no breakpoints, a scalar dwell time
ScenarioInit ==
    /\ positioners = <<Ramp(ScenarioPts)>>
    /\ triggers \in {<<TRUE>>, <<FALSE>>}
    /\ breakpoints = {}
    /\ dwelltime = ScalarDwell
    /\ scandb = TRUE
    /\ pos_maxmove_time = MaxCountTime + 2
    /\ det_maxcount_time = MaxCountTime
    /\ Constructed

ScenarioSpec == ScenarioInit /\ [][Next]_vars

\* verify_scan called up to MaxCalls times before run(), on a scan of one
\* point that passes verification and on two scans that fail it
VerifyInit ==
    /\ positioners \in {<<Ramp(1)>>, <<OverRamp(1)>>, <<Ramp(1), Ramp(MaxPts)>>}
    /\ triggers = <<FALSE>>
    /\ breakpoints = {}
    /\ dwelltime = ScalarDwell
    /\ scandb \in BOOLEAN
    /\ pos_maxmove_time = MaxCountTime + 2
    /\ det_maxcount_time = MaxCountTime
    /\ Constructed

VerifyNext == Next \/ Verify

VerifySpec == VerifyInit /\ [][VerifyNext]_vars

\* one engine used again: run() called up to MaxRuns times on a scan of one
\* point, with or without a scan database
RerunInit ==
    /\ positioners = <<Ramp(1)>>
    /\ triggers = <<FALSE>>
    /\ breakpoints = {}
    /\ dwelltime = ScalarDwell
    /\ scandb \in BOOLEAN
    /\ pos_maxmove_time = MaxCountTime + 2
    /\ det_maxcount_time = MaxCountTime
    /\ Constructed

RerunNext == Next \/ RunAgain

RerunSpec == RerunInit /\ [][RerunNext]_vars

\* the run of a scan of one point, with the wall clock followed
TimingInit ==
    /\ positioners = <<Ramp(1)>>
    /\ triggers = <<FALSE>>
    /\ breakpoints = {}
    /\ dwelltime = ScalarDwell
    /\ scandb = TRUE
    /\ pos_maxmove_time = MaxCountTime + 2
    /\ det_maxcount_time = MaxCountTime
    /\ Constructed

TimingNext == Next \/ Tick

TimingSpec == TimingInit /\ [][TimingNext]_vars

\* the messenger thread at work in the scan of the messenger specification,
\* with a scalar dwell time and with one dwell time per point
EstimateInit ==
    /\ positioners = <<Ramp(MaxPts)>>
    /\ triggers = <<FALSE>>
    /\ breakpoints = {}
    /\ dwelltime \in {ScalarDwell,
                      [kind |-> "array", val |-> DwellArray(MaxPts)]}
    /\ scandb = TRUE
    /\ pos_maxmove_time = MaxCountTime + 2
    /\ det_maxcount_time = MaxCountTime
    /\ Constructed

EstimateSpec == EstimateInit /\ [][MessengerNext]_vars

\* the engine as constructed, built by add_ calls and then run: run() reads
\* positioners[0] at line 511, so it is called with a positioner registered
BuildInit ==
    /\ positioners = <<>>
    /\ triggers = <<>>
    /\ breakpoints = {}
    /\ dwelltime = ScalarDwell
    /\ scandb = TRUE
    /\ pos_maxmove_time = MaxCountTime + 2
    /\ det_maxcount_time = MaxCountTime
    /\ Constructed

\* run() and its devices, with no request made of the scan
BuildRun ==
    \/ RunVerify \/ RunClear \/ RunOpen \/ RunDwell \/ RunStart
    \/ LoopTop \/ PointBegin \/ PauseLoop \/ MoveToPos \/ PosWait
    \/ PosAfter \/ PosSettle \/ TrigStart \/ TrigWait \/ TrigAfter
    \/ TrigCheck \/ DetSettle \/ ReadCounters \/ AtBreak \/ PointEnd
    \/ RunExit \/ RunPost \/ RunFinish
    \/ \E p \in Pos : PosDone(p)
    \/ \E t \in Trig : TrigDone(t)

BuildNext ==
    \/ \E p \in Actors : add_positioner(p)
    \/ \E t \in Actors : add_trigger(t)
    \/ \E c \in Actors : add_counter(c)
    \/ \E d \in Actors : add_detector(d)
    \/ (Len(positioners) > 0 /\ BuildRun)

BuildSpec == BuildInit /\ [][BuildNext]_vars

\* ---------------------------------------------------------------- properties
\* the events of the log with a given operation, device and argument
Sel(op) == {k \in DOMAIN log : log[k].op = op}
SelFor(op, who) == {k \in Sel(op) : log[k].who = who}
SelArg(op, who, arg) == {k \in SelFor(op, who) : log[k].arg = arg}
N(S) == Cardinality(S)

NPoints == Len(positioners[1])

\* run() is past the return moves and the last write
AfterExit ==
    \/ pc \in {"post", "join", "joining", "done"}
    \/ pc = "raised" /\ Sel("post_scan") # {}

\* an abort was seen by the poll that follows the point loop
AbortSeen == Sel("scan_aborted") # {}

\* the attempts begun at point index k
Attempts(k) == N(SelArg("move_to_pos", 1, k))

\* every positioner was sent back once, without waiting, to where it was
\* before the run
Restored ==
    \A p \in Pos :
        /\ N(SelFor("move_to", p)) = 1
        /\ \A k \in SelFor("move_to", p) : log[k].arg = 0

\* the writes of at_break with index b, and the closing writes
BreakWrites(b) ==
    N({k \in SelArg("write_data", 0, b) : k > 1 /\ log[k - 1] = Ev("at_break", 0, b)})
ClosingWrites == N(SelArg("write_data", 0, -1))

\* C1: once an abort was observed in a run that entered the point loop,
\* run() has, when it ends, sent every positioner exactly one non-blocking
\* move to the position it had before the run, written the closing
\* checkpoint exactly once, and kept every sample and position recorded.
C1_AbortRestoresAndCloses ==
    (AfterExit /\ AbortSeen) =>
        /\ Restored
        /\ ClosingWrites = 1
        /\ Len(pos_actual) = N(SelFor("read", 1))
        /\ \A c \in Trig : Len(buff[c]) = N(SelFor("read", c))

C1_Witness ==
    /\ pc = "done" /\ AbortSeen
    /\ Len(pos_actual) > 0
    /\ Len(positioners) > 1

\* C2: once a poll in the point loop has returned abort, the engine issues
\* no further move to an index, trigger start or counter read.
NewEvents == {log'[k] : k \in (Len(log) + 1)..Len(log')}
C2_NoCommandAfterAbort ==
    [][abort => \A e \in NewEvents :
                    e.op \notin {"move_to_pos", "start", "read"}]_vars

\* C3: pos_actual never holds more than N entries, and holds N when the run
\* finishes without an abort, also when points are redone.
C3_PosActualWithinN ==
    /\ Len(pos_actual) <= NPoints
    /\ (pc = "done" /\ ~AbortSeen) => Len(pos_actual) = NPoints

\* C4: a test of the trigger wait made when det_maxcount_time has elapsed,
\* with no abort requested, ends the wait.
C4_TriggerWaitTimesOut ==
    [][(TrigWait /\ elapsed >= det_maxcount_time /\ ~request_abort)
        => pc' = "trig_after"]_vars

\* C5: a point is not redone without bound: the engine goes on to the next
\* point before it has redone a point as often as the triggers can provoke
\* (MaxShort attempts found not ok).
C5_RetryBounded ==
    [][(PointEnd /\ ~point_ok /\ Attempts(i) >= MaxShort) => i' = i]_vars

\* C6, as claimed: an abort while point index k is in progress leaves
\* pos_actual with exactly k entries, and every positioner is sent back.
AbortedAt(k) == pc = "post" /\ abort /\ i = k /\ k < npts
AfterCheckpoint ==
    \E k \in Sel("scan_aborted") : k > 1 /\ log[k - 1].op = "write_data"
                                         /\ log[k - 1].arg >= 0
                                         /\ Sel("read") # {}
\* the attempts that were redone
Redone == N(SelFor("move_to_pos", 1)) - (i + 1)

C8_FailedVerifyDoesNothing ==
    verify_scan(positioners) # "" =>
        /\ pc \in {"idle", "returned"}
        /\ log = <<>>
        /\ pos_target = Const(Len(positioners), 0)
        /\ \A p \in Pos : pos_done[p]
        /\ \A t \in Trig : trig_done[t]
        /\ pos_actual = <<>>

C8_Witness ==
    /\ pc = "returned"
    /\ Len(positioners) = 2
    /\ verify_array(positioners[1]) /\ verify_array(positioners[2])
    /\ Len(positioners[1]) # Len(positioners[2])

\* C9: verify_scan fails exactly when some positioner's array fails
\* verify_array or differs in length from the first positioner's array.
BadArrays ==
    \E p \in Pos : \/ ~verify_array(positioners[p])
                   \/ Len(positioners[p]) # Len(positioners[1])
C9_VerifyScanExact ==
    pc # "idle" =>
        /\ (pc = "returned") = BadArrays
        /\ (error_message # "") = BadArrays

C9_Witness ==
    /\ pc = "returned"
    /\ Len(positioners) = 2
    /\ verify_array(positioners[1])
    /\ ~verify_array(positioners[2])
    /\ Len(positioners[1]) = Len(positioners[2])

\* C10: a poll of the pause loop that finds the resume request set, and no
\* abort, ends the pause: the loop is left at its next test.
C10_ResumeLeavesPause ==
    [][(PauseLoop /\ pause /\ resume') => (pc' = "move" \/ ~pause')]_vars

\* the place of a command in a point attempt (0: not part of one)
Rank(e) ==
    CASE e.op = "move_to_pos" -> 1
      [] e.op = "set_dwelltime" /\ e.who > 0 -> 2
      [] e.op = "start" -> 3
      [] e.op = "stop" -> 4
      [] e.op = "stop_wait" -> 5
      [] e.op = "read" -> 6
      [] e.op = "at_break" -> 7
      [] e.op = "write_data" /\ e.arg >= 0 -> 8
      [] OTHER -> 0

\* l[k] was issued inside the point loop (the write that follows the
\* opening of the file is not)
InLoop(l, k) ==
    /\ Rank(l[k]) > 0
    /\ l[k].op = "write_data" => l[k - 1].op = "at_break"

SameIndex(a, b) ==
    a.op = "set_dwelltime" \/ b.op = "set_dwelltime" \/ a.arg = b.arg

\* b may directly follow a in the point loop: later in the same attempt, or
\* the first move of the next attempt at the same or the next index
Follows(a, b) ==
    \/ /\ SameIndex(a, b)
       /\ \/ Rank(b) > Rank(a)
          \/ Rank(b) = Rank(a) /\ b.who > a.who
       /\ (b.op = "start" /\ b.who = 1) => Rank(a) \in {1, 2}
       /\ (b.op = "read" /\ b.who = 1) => Rank(a) \in {3, 4, 5}
       /\ b.op = "at_break" => Rank(a) = 6
    \/ /\ b.op = "move_to_pos" /\ b.who = 1
       /\ Rank(a) \in {6, 8}
       /\ b.arg \in {a.arg, a.arg + 1}

LastRank == IF log = <<>> THEN 0 ELSE Rank(log[Len(log)])

\* the moved-to indices, in the order of the attempts
AttemptIndices == [k \in 1..N(SelFor("move_to_pos", 1)) |->
    log[CHOOSE j \in SelFor("move_to_pos", 1) :
            N({m \in SelFor("move_to_pos", 1) : m <= j}) = k].arg]

\* l[k + 1] is in its place after l[k]
OrderedAt(l, k) ==
    InLoop(l, k + 1) =>
        IF InLoop(l, k) THEN Follows(l[k], l[k + 1])
        ELSE l[k + 1] = Ev("move_to_pos", 1, 0)

\* the waits of a point attempt are made where the log stands at the
\* commands they follow
WaitsInPlace ==
    /\ pc \in {"pos_wait", "pos_after", "pos_settle"} => LastRank \in {1, 2}
    /\ pc \in {"trig_wait", "trig_after"} => LastRank = 3
    /\ pc = "det_settle" => LastRank \in {3, 4}
    /\ pc = "break" => LastRank = 6 /\ Len(pos_actual) = N(SelFor("read", 1))

\* C11: in every point attempt the move commands come first, then the wait
\* for the positioners and their settling, then the trigger starts, the
\* wait for the triggers, the counter reads with the position record, and
\* last the checkpoint of a breakpoint; the first attempt is at index 0
\* and every later attempt is at the index of the one before it or at the
\* next index.  Every step of run() adds its commands to the log in that
\* order.
C11_PointOrder ==
    [][/\ \A k \in Len(log)..Len(log') - 1 : k >= 1 => OrderedAt(log', k)
       /\ WaitsInPlace']_vars

C11_Witness ==
    /\ pc = "done"
    /\ breakpoints = {0, 1}
    /\ AttemptIndices = <<0, 0, 1>>
    /\ BreakWrites(0) = 2

\* the output file was written this often
Writes == N(Sel("write_data"))

AbortedAfterTwo ==
    AfterExit /\ AbortSeen /\ Len(pos_actual) = 2 /\ shorts = 0

BetweenRecords ==
    pc \in {"loop", "point", "pause", "move", "pos_wait", "pos_after",
            "pos_settle", "trig_start", "trig_wait", "trig_after",
            "trig_check", "det_settle", "break", "point_end", "exit"}

LastOp(op) == log # <<>> /\ log[Len(log)].op = op

\* the position in the log of the closing write (0: not written)
ClosingAt ==
    IF SelArg("write_data", 0, -1) = {} THEN 0
    ELSE CHOOSE k \in SelArg("write_data", 0, -1) : TRUE

\* run() is past the post_scan hooks, which reported no error
HooksPassed == pc \in {"join", "joining", "done"}

\* C14: after the point loop, left at its end or by an abort, run() issues
\* one return move per positioner, then the closing write, then clears the
\* interrupt flags, then runs the post_scan hooks, then sets complete, then
\* writes the sentinel to the messenger's cell and joins the thread:
\* complete is never set before the hooks have run, and the thread has
\* ended when run() returns.
C14_CompletingOrder ==
    /\ AfterExit =>
          /\ ClosingWrites = 1
          /\ \A p \in Pos : /\ N(SelFor("move_to", p)) = 1
                            /\ \A k \in SelFor("move_to", p) :
                                  k = ClosingAt - Len(positioners) + p - 1
    /\ pc = "post" => LastOp("write_data") /\ ~complete /\ msg_cpt # None
    /\ (HooksPassed \/ (pc = "raised" /\ LastOp("post_scan"))) =>
          /\ log[ClosingAt + 1].op = "clear_interrupts"
          /\ log[ClosingAt + 2].op = "post_scan"
          /\ Len(log) = ClosingAt + 2
          /\ ~abort /\ ~pause /\ ~resume
    /\ complete <=> HooksPassed
    /\ msg_cpt = None => complete /\ pc \in {"joining", "done"}
    /\ pc = "done" => msg_pc = "ended" /\ msg_cpt = None

C14_Witness ==
    /\ pc = "done" /\ AbortSeen
    /\ msg_pc = "ended"
    /\ calls = <<1>>
    /\ Len(pos_actual) = 1

\* C15: the messenger thread ends at the test that finds its cell at None
\* or its time since the last change above the time-out, at a call of func
\* that fails, and at no other step; once the cell is None the thread ends,
\* and run(), waiting in join(), returns.
C15_MessengerEnds ==
    /\ [][(msg_pc # "ended" /\ msg_pc' = "ended") =>
              (msg_cpt = None \/ msg_idle > MsgTimeout)]_vars
    /\ [][(MsgCheck /\ (msg_cpt = None \/ msg_idle > MsgTimeout)) =>
              msg_pc' = "ended"]_vars
    /\ [][(MsgCheck /\ msg_cpt # None /\ msg_idle <= MsgTimeout) =>
              msg_pc' = "poll"]_vars
    /\ (msg_cpt = None) ~> (msg_pc = "ended")
    /\ (pc = "joining") ~> (pc = "done")

C15_Witness ==
    /\ pc = "done"
    /\ msg_pc = "ended"
    /\ last_point = None
    /\ msg_idle <= MsgTimeout
    /\ calls = <<1, 2>>

\* C16: func is called once for each change of the cell the thread has
\* observed, with the point number observed: the numbers it is given are
\* point numbers (never None) and no number is given twice.
C16_CallPerChange ==
    \A k \in DOMAIN calls :
        /\ calls[k] # None
        /\ \A j \in 1..k - 1 : calls[j] < calls[k]

\* C17: no step of the messenger thread, the call of func included, reads
\* or writes the scan database.
C17_ThreadLeavesStore ==
    [][MessengerStep => UNCHANGED <<reqVars, msgVars>>]_vars

\* run() raised on the result of the pre_scan, or of the post_scan hooks
PreScanFailed == pc = "raised" /\ LastOp("pre_scan")
PostScanFailed == pc = "raised" /\ LastOp("post_scan")

\* C18: when a pre_scan hook reports an error run() raises with the
\* messenger thread not started, no point begun and complete false; when a
\* post_scan hook reports an error run() raises with complete false.
C18_HookErrorRaises ==
    /\ PreScanFailed =>
          /\ msg_pc = "unstarted"
          /\ Sel("move_to_pos") = {} /\ Sel("start") = {} /\ Sel("read") = {}
          /\ pos_actual = <<>>
          /\ i = -1
          /\ ~complete
    /\ PostScanFailed => ~complete

C18_Witness ==
    /\ PostScanFailed
    /\ Len(pos_actual) = NPoints
    /\ msg_pc # "unstarted"

\* C19: after run() has failed on a verification error or on a hook error,
\* the error message of the scan holds the error.
C19_ErrorsWritten ==
    (pc = "returned" \/ PreScanFailed \/ PostScanFailed) => error_message # ""

\* C20: without a scan database clear_interrupts resets the request flags
\* kept in the process and returns: the call run() makes of it completes.
C20_FlagsInProcess ==
    [][(RunClear /\ ~scandb) => Ev("clear_interrupts", 0, 0) \in NewEvents]_vars

\* the engine, the devices and the scan definition
ownVars == <<cfgVars, flagVars, loopVars, dataVars, posVars, trigVars,
             threadVars, clockVars, timeVars, pc, complete, orig_positions,
             elapsed, det_dwell, log, runs>>

\* what the scan database and the _scan group hold
storeVars == <<reqVars, msgVars, scan_time_estimate>>

\* C21, as claimed: a call of verify_scan changes nothing: no engine state,
\* no device state and nothing in the store, whether it succeeds or fails.
C21_VerifyPure_Original ==
    [][Verify => UNCHANGED <<ownVars, storeVars>>]_vars

\* C21, amended: a call of verify_scan changes no engine state and no
\* device state; when it succeeds it leaves the store as it is, and when it
\* fails it writes the error message to the store and nothing else.
C21_VerifyPure ==
    [][Verify =>
          /\ UNCHANGED <<ownVars, reqVars, scan_message, scan_time_estimate>>
          /\ error_message' = IF verify_scan(positioners) = ""
                              THEN error_message
                              ELSE verify_scan(positioners)]_vars

C21_Witness ==
    /\ pc = "idle" /\ runs = 0
    /\ Len(verify_results) = 1
    /\ error_message = "inconsistent array length"

FlagsClear ==
    /\ ~abort /\ ~pause /\ ~resume
    /\ ~request_abort /\ ~request_pause /\ ~request_resume

IsPrefix(a, b) == Len(a) <= Len(b) /\ a = SubSeq(b, 1, Len(a))

\* run() is about to enter the point loop
LoopBegins == pc = "loop" /\ LastOp("move_to_start_wait")

\* C24: when the point loop of a run begins pos_actual and every counter
\* buffer are empty, also in a run that follows a run which recorded points;
\* no step of run() but the one that clears the data removes or changes an
\* entry of pos_actual or of a counter buffer.
C24_DataClearedBetweenRuns ==
    /\ [](LoopBegins => pos_actual = <<>> /\ \A c \in Trig : buff[c] = <<>>)
    /\ [][pc # "open" =>
              /\ IsPrefix(pos_actual, pos_actual')
              /\ \A c \in Trig : IsPrefix(buff[c], buff'[c])]_vars

C24_Witness ==
    /\ runs = 2
    /\ LoopBegins
    /\ N(Sel("read")) = 1
    /\ pos_actual = <<>>

\* the dwell time of point k, counted from 1
DwellAt(k) ==
    IF dwelltime.kind = "array" THEN dwelltime.val[k] ELSE dwelltime.val[1]

\* the dwell times of the points after point c, added up
RECURSIVE DwellAfter(_)
DwellAfter(c) ==
    IF c >= NPoints THEN 0 ELSE DwellAt(c + 1) + DwellAfter(c + 1)

Remaining(c) ==
    (NPoints - c) * (pos_settle_time + det_settle_time) + DwellAfter(c)

\* C25: the estimate the messenger writes at point cpt is (npts - cpt)
\* settle times plus the dwell times of the points after cpt, for a scalar
\* dwell time and for one dwell time per point; the estimate run() writes
\* before the scan is the one for cpt = 0; and the estimate does not grow
\* as cpt goes from 0 to npts.
C25_TimeLeft ==
    /\ [][(MsgCall /\ msg_cpt # None) =>
              scan_time_estimate' = Remaining(msg_cpt)]_vars
    /\ [][(RunDwell /\ pc' = "start") => scan_time_estimate' = Remaining(0)]_vars
    /\ [](msg_pc # "unstarted" =>
              \A c \in 0..npts :
                  /\ time_left(c) = Remaining(c)
                  /\ c < npts => time_left(c + 1) <= time_left(c))

C25_Witness ==
    /\ dwelltime.kind = "array"
    /\ calls = <<1>>
    /\ msg_pc = "check"
    /\ scan_time_estimate = pos_settle_time + det_settle_time + Dwell + 1

\* C26: when run() has returned after the point loop, left at its end or
\* by an abort, runtime is the sum of inittime, looptime and exittime, none
\* of the three is negative, and looptime is the time from the reading of
\* the clock before the point loop to the reading after it.
C26_PhaseTimings ==
    /\ [](pc = "done" =>
              /\ runtime = inittime + looptime + exittime
              /\ inittime >= 0 /\ looptime >= 0 /\ exittime >= 0
              /\ looptime = ts_loop - ts_init)
    /\ [][(pc = "start" /\ pc' = "loop") => ts_init' = now]_vars
    /\ [][(pc = "exit" /\ pc' = "post") => ts_loop' = now]_vars

C26_Witness ==
    /\ pc = "done" /\ AbortSeen
    /\ inittime = 1 /\ looptime = 1 /\ exittime = 1
    /\ runtime = 3

\* C27: a test of the positioner wait made when pos_maxmove_time has
\* elapsed, with no abort seen or requested, ends the wait with the scan not
\* aborted; the polls that follow go on to the start of the triggers, and
\* every trigger is started.
C27_MoveTimeout ==
    /\ [][(PosWait /\ elapsed >= pos_maxmove_time /\ ~abort) =>
              pc' = "pos_after" /\ ~abort']_vars
    /\ [][(PosAfter /\ ~request_abort) => pc' = "pos_settle" /\ ~abort']_vars
    /\ [][(PosSettle /\ ~request_abort) => pc' = "trig_start" /\ ~abort']_vars
    /\ [][TrigStart => /\ pc' = "trig_wait"
                       /\ \A t \in Trig : Ev("start", t, i) \in NewEvents]_vars

C27_Witness ==
    /\ pc = "trig_wait"
    /\ ~pos_done[1]
    /\ pos_maxmove_time = MaxMoveTime
    /\ ~abort /\ ~request_abort
    /\ N(SelFor("start", 1)) = 1

\* the polls between the move commands and the counter reads
AttemptPolls ==
    {"pos_wait", "pos_after", "pos_settle", "trig_wait", "trig_after",
     "det_settle"}

\* C28: a poll between the move commands and the counter reads of a point
\* attempt that sees an abort leaves the point loop (the polls of the two
\* waits by way of the poll that follows the wait), and as long as the
\* abort stands no counter is read, nothing is appended to pos_actual, the
\* messenger's cell is not written and no checkpoint is executed.
C28_AbortSkipsRead ==
    /\ [][(pc \in AttemptPolls /\ pc' # pc /\ abort') =>
              pc' \in {"exit", "pos_after", "trig_after"}]_vars
    /\ [][(pc \in {"pos_after", "trig_after"} /\ abort /\ pc' # pc) =>
              pc' = "exit"]_vars
    /\ [][abort =>
              /\ UNCHANGED <<pos_actual, buff, msg_cpt>>
              /\ \A e \in NewEvents :
                    /\ e.op \notin {"read", "stop_wait", "at_break"}
                    /\ e.op = "write_data" => e.arg = -1]_vars

C28_Witness ==
    /\ pc = "post" /\ AbortSeen
    /\ breakpoints = {0}
    /\ N(SelFor("start", 1)) = 1
    /\ Sel("read") = {} /\ Sel("at_break") = {}
    /\ pos_actual = <<>> /\ msg_cpt = 0

\* C29: the runtime check flags a point attempt not ok exactly when some
\* trigger's runtime is less than half the minimum dwell time.
C29_EveryTriggerChecked ==
    [][TrigCheck => (point_ok' <=> ~(\E t \in Trig : TooShort(t)))]_vars

\* run() is past the trigger wait of a point attempt, which no abort ended
PastWait == pc \in {"trig_check", "det_settle", "read"}

\* C30, as claimed: the trigger wait does not end, and the counters are not
\* read, before every trigger is done and the minimum dwell time has elapsed.
C30_WaitFullDwell_Original ==
    PastWait => (\A t \in Trig : trig_done[t]) /\ elapsed >= min_dwelltime

\* C30, amended: absent an abort the trigger wait does not end, and the
\* counters are not read, before every trigger is done and more than half
\* the minimum dwell time has elapsed since the triggers were started.
C30_WaitHalfDwell ==
    /\ [][(TrigWait /\ pc' = "trig_after" /\ ~abort') =>
              (\A t \in Trig : trig_done[t]) /\ 2 * elapsed > min_dwelltime]_vars
    /\ [](PastWait =>
              (\A t \in Trig : trig_done[t]) /\ 2 * elapsed > min_dwelltime)

C30_Witness ==
    /\ pc = "read"
    /\ Len(triggers) = 2
    /\ 2 * elapsed > min_dwelltime
    /\ elapsed < min_dwelltime

\* C31: the checkpoint of a breakpoint first writes the data to the output
\* file and then runs the at_break hooks.
C31_FlushThenHooks ==
    [][(AtBreak /\ log' # log) =>
          /\ log'[Len(log) + 1] = Ev("write_data", 0, i)
          /\ log'[Len(log) + 2] = Ev("at_break", 0, i)]_vars

\* run() is inside the point loop
LoopPcs ==
    {"loop", "point", "pause", "move", "pos_wait", "pos_after", "pos_settle",
     "trig_start", "trig_wait", "trig_after", "trig_check", "det_settle",
     "read", "break", "point_end"}

\* C32: with one dwell time per point every detector is given the dwell
\* time of index i with the moves of each attempt at i, so that the
\* detectors hold it when the triggers are started; with a scalar dwell
\* time the detectors are given it once before the point loop, and inside
\* the loop it is not set again.
C32_DwellBeforeTriggers ==
    /\ [][(MoveToPos /\ dwelltime_varys) =>
              \A t \in Trig :
                  Ev("set_dwelltime", t, dwelltime.val[i + 1]) \in NewEvents]_vars
    /\ [][(TrigStart /\ dwelltime_varys) =>
              det_dwell = dwelltime.val[i + 1]]_vars
    /\ [][(RunDwell /\ dwelltime.kind = "scalar") =>
              /\ det_dwell' = dwelltime.val[1]
              /\ Ev("set_dwelltime", 0, dwelltime.val[1]) \in NewEvents]_vars
    /\ [][(pc \in LoopPcs /\ ~dwelltime_varys) =>
              /\ det_dwell' = det_dwell
              /\ \A e \in NewEvents : e.op # "set_dwelltime"]_vars
    /\ [](pc \in LoopPcs /\ ~dwelltime_varys => N(Sel("set_dwelltime")) = 1)

C32_Witness ==
    /\ pc = "trig_wait"
    /\ dwelltime.kind = "array"
    /\ i = 1
    /\ det_dwell = Dwell + 1
    /\ N(Sel("set_dwelltime")) = 2

\* run() is inside a point attempt, past the line that sets cpt
InPoint == pc \in LoopPcs \ {"loop", "point"}

\* C33: cpt is 0 when the point loop is entered, it is i + 1 and between 1
\* and npts while the point of index i is worked on, it never decreases in
\* the point loop, and the attempt that follows one found not ok has the
\* same cpt.
C33_PointNumber ==
    /\ [](LoopBegins => cpt = 0)
    /\ [](InPoint => cpt = i + 1 /\ 1 <= cpt /\ cpt <= npts)
    /\ [][(pc \in LoopPcs) => (cpt' >= cpt)]_vars
    /\ [][(PointEnd /\ ~point_ok) => cpt' = cpt /\ i' = cpt - 2]_vars

C33_Witness ==
    /\ InPoint
    /\ shorts = 1
    /\ Attempts(1) = 2
    /\ cpt = 2 /\ i = 1

\* C34: the messenger thread never calls func with None for cpt.
C34_NoSentinelCall ==
    [][MsgCall => msg_cpt # None]_vars

\* C35: when run() has raised on the result of the post_scan hooks, the
\* messenger's cell holds None: the thread has been told to stop.
C35_ReporterStopped ==
    PostScanFailed => msg_cpt = None

C37_FirstWriteClean ==
    [][RunOpen => pos_actual = <<>> /\ \A c \in DOMAIN buff : buff[c] = <<>>]_vars

NoRepeat(list) ==
    \A j, k \in 1..Len(list) : list[j] = list[k] => j = k

====
